---- MODULE Spec2Model ----
(***************************************************************************)
(* Model of the ccli command-line option parser (src/src/optparse.c,       *)
(* src/src/optparse.h) driven the way src/src/main.c drives it: a registry *)
(* of caller-declared descriptors is linked with OPTLIST_INIT/OPTLIST_ADD, *)
(* parse_opts scans one argument vector, print_usage / print_help may      *)
(* repartition the chain again.                                            *)
(*                                                                         *)
(* Representation.  A C string is a tuple of one-character strings; a      *)
(* char const* is NullStr (<<>>) or Ptr(s) (<<s>>); an Option* is the      *)
(* descriptor's name or NULL; '\0' is NUL.  C index k of argv is element   *)
(* k+1 of the sequence argv.                                               *)
(***************************************************************************)
EXTENDS Integers, Sequences, FiniteSets, TLC

NULL == "NULL"
NUL == "NUL"
NullStr == << >>
Ptr(s) == << s >>

-----------------------------------------------------------------------------
(* Bounds of the checked input space *)

\* longest argument vector handed to parse_opts, argv[0] not counted
MaxArgs == 3

\* most calls of parse_opts a caller makes on one registry
MaxCalls == 2

-----------------------------------------------------------------------------
(* The descriptors a caller declares (Option initialisers).  foo, str,     *)
(* verbose and path are those of the example program; num is an            *)
(* integer-valued option known by its short name only, file a second       *)
(* positional.                                                             *)

OptIds == {"foo_opt", "verbose_opt", "str_opt", "num_opt", "path_opt", "file_opt"}

Option == [o \in OptIds |->
    CASE o = "foo_opt" ->
           [lname |-> Ptr(<<"f","o","o">>), sname |-> "f",
            type |-> "OPTION_FLAG", required |-> FALSE]
      [] o = "verbose_opt" ->
           [lname |-> Ptr(<<"v","e","r","b","o","s","e">>), sname |-> "v",
            type |-> "OPTION_INCREMENT", required |-> FALSE]
      [] o = "str_opt" ->
           [lname |-> Ptr(<<"s","t","r">>), sname |-> "s",
            type |-> "OPTION_STORE_STR", required |-> TRUE]
      [] o = "num_opt" ->
           [lname |-> NullStr, sname |-> "n",
            type |-> "OPTION_STORE_INT", required |-> TRUE]
      [] o = "path_opt" ->
           [lname |-> Ptr(<<"p","a","t","h">>), sname |-> NUL,
            type |-> "OPTION_POSITIONAL", required |-> FALSE]
      [] o = "file_opt" ->
           [lname |-> Ptr(<<"f","i","l","e">>), sname |-> NUL,
            type |-> "OPTION_POSITIONAL", required |-> FALSE]]

\* the caller's output variables before parsing: false, 0, NULL
InitialDest == [o \in OptIds |->
    CASE Option[o].type = "OPTION_FLAG" -> FALSE
      [] Option[o].type = "OPTION_INCREMENT" -> 0
      [] Option[o].type = "OPTION_STORE_INT" -> 0
      [] OTHER -> NullStr]

\* OptParserError err = {0}
NoError == [type |-> "OPTERROR_NOERR", lname |-> NullStr, sname |-> NUL, opt |-> NullStr]

\* (OptParserError){TYPE, .opt = OPT}: the fields not named are zero
ErrorOpt(type, tok) == [type |-> type, lname |-> NullStr, sname |-> NUL, opt |-> Ptr(tok)]

IsPositional(o) == Option[o].type = "OPTION_POSITIONAL"

-----------------------------------------------------------------------------
(* Strings *)

\* s[k] of a C string: the terminating '\0' at k = strlen(s)
CharAt(s, k) == IF k < Len(s) THEN s[k + 1] ELSE NUL

\* s + k: the string from character k on
Suffix(s, k) == SubSeq(s, k + 1, Len(s))

Digits == {"0", "1", "2", "3", "4", "5", "6", "7", "8", "9"}

DigitVal(c) == CHOOSE n \in 0..9 : <<"0","1","2","3","4","5","6","7","8","9">>[n + 1] = c

RECURSIVE SkipSpace(_, _)
SkipSpace(s, k) == IF CharAt(s, k) = " " THEN SkipSpace(s, k + 1) ELSE k

RECURSIVE ReadDigits(_, _, _)
\* [val, end]: the value of the decimal digits from k on and where they stop
ReadDigits(s, k, acc) ==
    IF CharAt(s, k) \in Digits
    THEN ReadDigits(s, k + 1, acc * 10 + DigitVal(CharAt(s, k)))
    ELSE [val |-> acc, end |-> k]

\* strtol(s, &end, 10) on the short strings of the model (no overflow):
\* white space, an optional sign, digits; with no digit end = s, result 0
strtol(s) ==
    LET k0 == SkipSpace(s, 0)
        sign == CharAt(s, k0)
        k1 == IF sign \in {"+", "-"} THEN k0 + 1 ELSE k0
        d == ReadDigits(s, k1, 0)
    IN  IF d.end = k1
        THEN [result |-> 0, end |-> 0]
        ELSE [result |-> IF sign = "-" THEN 0 - d.val ELSE d.val, end |-> d.end]

-----------------------------------------------------------------------------
(* The registry: an OptionList (start, end) over the _next links *)

\* Option x = { ... }: _next is NULL in every freshly declared descriptor
FreshNext == [o \in OptIds |-> NULL]

\* OPTLIST_INIT(LL, OPT)
OPTLIST_INIT(o) == [list |-> [start |-> o, end |-> o], next |-> FreshNext]

\* OPTLIST_ADD(LL, OPT)
OPTLIST_ADD(r, o) ==
    [list |-> [start |-> r.list.start, end |-> o],
     next |-> [r.next EXCEPT ![r.list.end] = o]]

RECURSIVE BuildFrom(_, _, _)
BuildFrom(r, decl, k) ==
    IF k > Len(decl) THEN r ELSE BuildFrom(OPTLIST_ADD(r, decl[k]), decl, k + 1)

\* the registry main builds for the declared order decl
BuildRegistry(decl) == BuildFrom(OPTLIST_INIT(decl[1]), decl, 2)

RECURSIVE CollectLoop(_, _)
\* the OPTLIST_FOREACH of collect_positionals, from descriptor i on
CollectLoop(i, c) ==
    IF i = NULL THEN c
    ELSE LET body ==
               IF IsPositional(i)
               THEN IF c.pos.end = NULL
                    THEN [c EXCEPT !.pos = [start |-> i, end |-> i],
                                   !.count = c.count + 1]
                    ELSE [c EXCEPT !.next[c.pos.end] = i,
                                   !.pos.end = i,
                                   !.count = c.count + 1]
               ELSE IF c.last_n = NULL
                    THEN [c EXCEPT !.last_n = i]
                    ELSE [c EXCEPT !.next[c.last_n] = i,
                                   !.last_n = i]
         IN  CollectLoop(body.next[i], body)

\* collect_positionals without the store last_n->_next = pos->start: the
\* last option keeps the successor it had
collect_positionals_unlinked(list, next) ==
    LET c == CollectLoop(list.start,
                         [next |-> next, pos |-> [start |-> NULL, end |-> NULL],
                          last_n |-> NULL, count |-> 0])
    IN  [next |-> IF c.pos.end # NULL THEN [c.next EXCEPT ![c.pos.end] = NULL]
                  ELSE c.next,
         pos |-> c.pos,
         count |-> c.count,
         ub |-> c.pos.end = NULL]

\* collect_positionals(pos, opts): the relinked chain, the positional view,
\* the count, and ub = the final store goes through a null pos->end
collect_positionals(list, next) ==
    LET c == CollectLoop(list.start,
                         [next |-> next, pos |-> [start |-> NULL, end |-> NULL],
                          last_n |-> NULL, count |-> 0])
        n1 == IF c.last_n # NULL THEN [c.next EXCEPT ![c.last_n] = c.pos.start]
              ELSE c.next
    IN  [next |-> IF c.pos.end # NULL THEN [n1 EXCEPT ![c.pos.end] = NULL] ELSE n1,
         pos |-> c.pos,
         count |-> c.count,
         ub |-> c.pos.end = NULL]

-----------------------------------------------------------------------------
(* Name resolution *)

RECURSIVE FindLname(_, _, _)
FindLname(opt, next, str) ==
    IF opt = NULL THEN NULL
    ELSE IF IsPositional(opt) THEN NULL
    ELSE IF Option[opt].lname = NullStr THEN FindLname(next[opt], next, str)
    ELSE IF Option[opt].lname[1] = str THEN opt
    ELSE FindLname(next[opt], next, str)

\* find_option_lname(opts, str)
find_option_lname(list, next, str) == FindLname(list.start, next, str)

RECURSIVE FindSname(_, _, _)
FindSname(opt, next, ch) ==
    IF opt = NULL THEN NULL
    ELSE IF IsPositional(opt) THEN NULL
    ELSE IF Option[opt].sname = NUL THEN FindSname(next[opt], next, ch)
    ELSE IF ch = Option[opt].sname THEN opt
    ELSE FindSname(next[opt], next, ch)

\* find_option_sname(opts, str): only str[0] is compared
find_option_sname(list, next, str) == FindSname(list.start, next, CharAt(str, 0))

-----------------------------------------------------------------------------
(* Value assignment.  A frame f holds what one parse_opts call reads and   *)
(* writes: the descriptors' _activated flags and destinations, *err, the   *)
(* locals omit_idx, positionals, pos_count, the result rc of the stage     *)
(* that ran last, and a record of what was done (err_writes, assigns,      *)
(* visits) that the code does not keep but the properties speak about.     *)

argc(argv) == Len(argv)

\* argv[k]
Arg(argv, k) == argv[k + 1]

\* *err = e
WriteErr(f, e) == [f EXCEPT !.err = e, !.err_writes = @ + 1, !.rc = -1]

\* opt_has_argument(opt)
opt_has_argument(opt) ==
    Option[opt].type \in {"OPTION_STORE_STR", "OPTION_STORE_INT"}

\* the stores of a successful execute_option: *dest, _activated, return 0
Assigned(f, opt, val, idx, src) ==
    [f EXCEPT !.dest[opt] = val,
              !.activated[opt] = TRUE,
              !.assigns = Append(@, [opt |-> opt, idx |-> idx, src |-> src]),
              !.rc = 0]

\* execute_option without the idx + 1 == argc tests: argv[argc], the null
\* pointer that ends the vector, is taken as the value
execute_option_unchecked(f, opt, idx, argv) ==
    CASE Option[opt].type = "OPTION_STORE_STR" ->
           Assigned(f, opt, IF idx + 1 = argc(argv) THEN NullStr
                            ELSE Ptr(Arg(argv, idx + 1)), idx, idx + 1)
      [] Option[opt].type = "OPTION_STORE_INT" ->
           Assigned(f, opt, IF idx + 1 = argc(argv) THEN 0
                            ELSE strtol(Arg(argv, idx + 1)).result, idx, idx + 1)
      [] Option[opt].type = "OPTION_FLAG" ->
           Assigned(f, opt, TRUE, idx, -1)
      [] Option[opt].type = "OPTION_INCREMENT" ->
           Assigned(f, opt, f.dest[opt] + 1, idx, -1)

\* execute_option that reads the value at idx, the option's own token
execute_option_own_token(f, opt, idx, argv) ==
    CASE Option[opt].type = "OPTION_STORE_STR" ->
           IF idx + 1 = argc(argv)
           THEN WriteErr(f, ErrorOpt("OPTERROR_ARGUMENT_REQUIRED", Arg(argv, idx)))
           ELSE Assigned(f, opt, Ptr(Arg(argv, idx)), idx, idx)
      [] Option[opt].type = "OPTION_STORE_INT" ->
           IF idx + 1 = argc(argv)
           THEN WriteErr(f, ErrorOpt("OPTERROR_ARGUMENT_REQUIRED", Arg(argv, idx)))
           ELSE LET r == strtol(Arg(argv, idx))
                IN  IF CharAt(Arg(argv, idx), r.end) # NUL
                    THEN WriteErr(f, ErrorOpt("OPTERROR_INT_TYPE_ERROR", Arg(argv, idx)))
                    ELSE Assigned(f, opt, r.result, idx, idx)
      [] Option[opt].type = "OPTION_FLAG" ->
           Assigned(f, opt, TRUE, idx, -1)
      [] Option[opt].type = "OPTION_INCREMENT" ->
           Assigned(f, opt, f.dest[opt] + 1, idx, -1)

\* execute_option whose increment stores 1 instead of adding 1
execute_option_sets_one(f, opt, idx, argv) ==
    CASE Option[opt].type = "OPTION_STORE_STR" ->
           IF idx + 1 = argc(argv)
           THEN WriteErr(f, ErrorOpt("OPTERROR_ARGUMENT_REQUIRED", Arg(argv, idx)))
           ELSE Assigned(f, opt, Ptr(Arg(argv, idx + 1)), idx, idx + 1)
      [] Option[opt].type = "OPTION_STORE_INT" ->
           IF idx + 1 = argc(argv)
           THEN WriteErr(f, ErrorOpt("OPTERROR_ARGUMENT_REQUIRED", Arg(argv, idx)))
           ELSE LET r == strtol(Arg(argv, idx + 1))
                IN  IF CharAt(Arg(argv, idx + 1), r.end) # NUL
                    THEN WriteErr(f, ErrorOpt("OPTERROR_INT_TYPE_ERROR", Arg(argv, idx)))
                    ELSE Assigned(f, opt, r.result, idx, idx + 1)
      [] Option[opt].type = "OPTION_FLAG" ->
           Assigned(f, opt, TRUE, idx, -1)
      [] Option[opt].type = "OPTION_INCREMENT" ->
           Assigned(f, opt, 1, idx, -1)

\* execute_option(opt, idx, argc, argv, err)
execute_option(f, opt, idx, argv) ==
    CASE Option[opt].type = "OPTION_STORE_STR" ->
           IF idx + 1 = argc(argv)
           THEN WriteErr(f, ErrorOpt("OPTERROR_ARGUMENT_REQUIRED", Arg(argv, idx)))
           ELSE Assigned(f, opt, Ptr(Arg(argv, idx + 1)), idx, idx + 1)
      [] Option[opt].type = "OPTION_STORE_INT" ->
           IF idx + 1 = argc(argv)
           THEN WriteErr(f, ErrorOpt("OPTERROR_ARGUMENT_REQUIRED", Arg(argv, idx)))
           ELSE LET r == strtol(Arg(argv, idx + 1))
                IN  IF CharAt(Arg(argv, idx + 1), r.end) # NUL
                    THEN WriteErr(f, ErrorOpt("OPTERROR_INT_TYPE_ERROR", Arg(argv, idx)))
                    ELSE Assigned(f, opt, r.result, idx, idx + 1)
      [] Option[opt].type = "OPTION_FLAG" ->
           Assigned(f, opt, TRUE, idx, -1)
      [] Option[opt].type = "OPTION_INCREMENT" ->
           Assigned(f, opt, f.dest[opt] + 1, idx, -1)

-----------------------------------------------------------------------------
(* Grouped short options *)

\* the body of parse_short_opts' loop after a successful execute_option:
\* the error is stored, the loop goes on and omit_idx is overwritten
ClaimGroupArgument(f, opt, idx, i, argv) ==
    IF opt_has_argument(opt)
    THEN LET g == IF f.omit_idx # -1
                  THEN [f EXCEPT !.err = [type |-> "OPTERROR_ONE_ARG_OPT_PER_GROUP",
                                          lname |-> NullStr,
                                          sname |-> CharAt(Arg(argv, idx), i),
                                          opt |-> Ptr(Arg(argv, idx))],
                                 !.err_writes = @ + 1]
                  ELSE f
         IN  [g EXCEPT !.omit_idx = idx + 1]
    ELSE f

RECURSIVE ShortLoop(_, _, _, _, _)
\* for (size_t i = 1; i < len; ++i) of parse_short_opts, from character i on
ShortLoop(f, reg, idx, argv, i) ==
    IF i >= Len(Arg(argv, idx)) THEN [f EXCEPT !.rc = 0]
    ELSE LET opt == find_option_sname(reg.list, reg.next, Suffix(Arg(argv, idx), i))
         IN  IF opt = NULL
             THEN WriteErr(f, ErrorOpt("OPTERROR_UNKNOWN", Arg(argv, idx)))
             ELSE LET e == execute_option(f, opt, idx, argv)
                  IN  IF e.rc = -1 THEN e
                      ELSE ShortLoop(ClaimGroupArgument(e, opt, idx, i, argv),
                                     reg, idx, argv, i + 1)

\* parse_short_opts that resolves the first character only
parse_short_opts_first_only(f, reg, idx, argv) ==
    IF Len(Arg(argv, idx)) <= 1 THEN [f EXCEPT !.rc = 0]
    ELSE LET opt == find_option_sname(reg.list, reg.next, Suffix(Arg(argv, idx), 1))
         IN  IF opt = NULL
             THEN WriteErr(f, ErrorOpt("OPTERROR_UNKNOWN", Arg(argv, idx)))
             ELSE LET e == execute_option(f, opt, idx, argv)
                  IN  IF e.rc = -1 THEN e
                      ELSE ClaimGroupArgument(e, opt, idx, 1, argv)

\* parse_short_opts that undoes the stores of a group that fails
parse_short_opts_rollback(f, reg, idx, argv) ==
    LET e == ShortLoop(f, reg, idx, argv, 1)
    IN  IF e.rc = -1 THEN [e EXCEPT !.dest = f.dest, !.activated = f.activated]
        ELSE e

\* parse_short_opts(opts, idx, argc, argv, omit_idx, err)
parse_short_opts(f, reg, idx, argv) == ShortLoop(f, reg, idx, argv, 1)

-----------------------------------------------------------------------------
(* The top-level scanner *)

Visit(f, i, how) == [f EXCEPT !.visits = Append(@, [idx |-> i, how |-> how])]

\* the long-option branch that forgets omit_idx = i + 1
ScanLong_keeps_value(f, reg, i, argv) ==
    LET opt == find_option_lname(reg.list, reg.next, Suffix(Arg(argv, i), 2))
    IN  IF opt = NULL
        THEN WriteErr(f, ErrorOpt("OPTERROR_UNKNOWN", Arg(argv, i)))
        ELSE execute_option(f, opt, i, argv)

\* the long-option branch of the scan loop
ScanLong(f, reg, i, argv) ==
    LET opt == find_option_lname(reg.list, reg.next, Suffix(Arg(argv, i), 2))
    IN  IF opt = NULL
        THEN WriteErr(f, ErrorOpt("OPTERROR_UNKNOWN", Arg(argv, i)))
        ELSE LET e == execute_option(f, opt, i, argv)
             IN  IF e.rc = -1 THEN e
                 ELSE IF opt_has_argument(opt) THEN [e EXCEPT !.omit_idx = i + 1]
                 ELSE e

\* the plain-token branch that does not move positionals.start on
ScanPositional_same_slot(f, reg, i, argv, n_pos) ==
    IF f.pos_count = n_pos
    THEN WriteErr(f, ErrorOpt("OPTERROR_UNEXPECTED_POSITIONAL", Arg(argv, i)))
    ELSE IF f.positionals.start = NULL THEN [f EXCEPT !.aborted = TRUE]
    ELSE [f EXCEPT !.dest[f.positionals.start] = Ptr(Arg(argv, i)),
                   !.assigns = Append(@, [opt |-> f.positionals.start,
                                          idx |-> i, src |-> i]),
                   !.pos_count = @ + 1,
                   !.rc = 0]

\* the plain-token branch without the pos_count == n_pos test
ScanPositional_unbounded(f, reg, i, argv, n_pos) ==
    IF f.positionals.start = NULL THEN [f EXCEPT !.aborted = TRUE]
    ELSE [f EXCEPT !.dest[f.positionals.start] = Ptr(Arg(argv, i)),
                   !.assigns = Append(@, [opt |-> f.positionals.start,
                                          idx |-> i, src |-> i]),
                   !.positionals.start = reg.next[f.positionals.start],
                   !.pos_count = @ + 1,
                   !.rc = 0]

\* the plain-token branch of the scan loop; a null positionals.start would
\* fail the assert
ScanPositional(f, reg, i, argv, n_pos) ==
    IF f.pos_count = n_pos
    THEN WriteErr(f, ErrorOpt("OPTERROR_UNEXPECTED_POSITIONAL", Arg(argv, i)))
    ELSE IF f.positionals.start = NULL THEN [f EXCEPT !.aborted = TRUE]
    ELSE [f EXCEPT !.dest[f.positionals.start] = Ptr(Arg(argv, i)),
                   !.assigns = Append(@, [opt |-> f.positionals.start,
                                          idx |-> i, src |-> i]),
                   !.positionals.start = reg.next[f.positionals.start],
                   !.pos_count = @ + 1,
                   !.rc = 0]

\* the scan loop that takes a lone "-" for a plain token
scan_token_dash_plain(f, reg, i, argv, n_pos) ==
    IF i = f.omit_idx THEN [Visit(f, i, "omitted") EXCEPT !.rc = 0]
    ELSE IF CharAt(Arg(argv, i), 0) = "-" /\ CharAt(Arg(argv, i), 1) = "-"
    THEN ScanLong(Visit(f, i, "long"), reg, i, argv)
    ELSE IF CharAt(Arg(argv, i), 0) = "-" /\ CharAt(Arg(argv, i), 1) # NUL
    THEN parse_short_opts(Visit(f, i, "short"), reg, i, argv)
    ELSE ScanPositional(Visit(f, i, "positional"), reg, i, argv, n_pos)

\* one iteration of for (int i = 1; i < argc; ++i); rc = -1: parse_opts
\* returns -1 here
scan_token(f, reg, i, argv, n_pos) ==
    IF i = f.omit_idx THEN [Visit(f, i, "omitted") EXCEPT !.rc = 0]
    ELSE IF CharAt(Arg(argv, i), 0) = "-" /\ CharAt(Arg(argv, i), 1) = "-"
    THEN ScanLong(Visit(f, i, "long"), reg, i, argv)
    ELSE IF CharAt(Arg(argv, i), 0) = "-"
    THEN parse_short_opts(Visit(f, i, "short"), reg, i, argv)
    ELSE ScanPositional(Visit(f, i, "positional"), reg, i, argv, n_pos)

RECURSIVE LastPositional(_, _, _, _)
\* while (pos_count != n_pos && pos->_next != NULL) of the end-of-scan check
LastPositional(pos, next, pos_count, n_pos) ==
    IF pos_count # n_pos /\ next[pos] # NULL
    THEN LastPositional(next[pos], next, pos_count + 1, n_pos)
    ELSE pos

\* if (pos_count < n_pos) { ... }; a null positionals.start is dereferenced
expected_positional(f, reg, n_pos) ==
    LET pos == LastPositional(f.positionals.start, reg.next, f.pos_count, n_pos)
    IN  IF f.positionals.start = NULL THEN [f EXCEPT !.aborted = TRUE]
        ELSE
        WriteErr(f, [type |-> "OPTERROR_EXPECTED_POSITIONAL", lname |-> NullStr,
                     sname |-> NUL, opt |-> Option[pos].lname])

RECURSIVE RequiredLoop(_, _, _)
\* the OPTLIST_FOREACH that closes parse_opts, from descriptor opt on
RequiredLoop(f, opt, next) ==
    IF opt = NULL THEN [f EXCEPT !.rc = 0]
    ELSE IF IsPositional(opt) THEN [f EXCEPT !.rc = 0]
    ELSE IF Option[opt].required /\ ~f.activated[opt]
    THEN [f EXCEPT !.err.type = "OPTERROR_REQUIRED_OPTION",
                   !.err.lname = IF Option[opt].lname # NullStr
                                 THEN Option[opt].lname ELSE @,
                   !.err.sname = IF Option[opt].sname # NUL
                                 THEN Option[opt].sname ELSE @,
                   !.err_writes = @ + 1,
                   !.rc = -1]
    ELSE RequiredLoop(f, next[opt], next)

\* the end-of-scan checks in the other order: required options first
end_checks_required_first(f, reg, n_pos) ==
    LET r == RequiredLoop(f, reg.list.start, reg.next)
    IN  IF r.rc = -1 THEN r
        ELSE IF f.pos_count < n_pos THEN expected_positional(f, reg, n_pos)
        ELSE r

\* the end-of-scan checks with the required options tested against the
\* stores of this call, not against _activated
end_checks_this_call(f, reg, n_pos) ==
    IF f.pos_count < n_pos
    THEN expected_positional(f, reg, n_pos)
    ELSE LET g == RequiredLoop(
                      [f EXCEPT !.activated =
                           [o \in OptIds |->
                               \E m \in 1..Len(f.assigns) : f.assigns[m].opt = o]],
                      reg.list.start, reg.next)
         IN  [g EXCEPT !.activated = f.activated]

\* parse_opts after its scan loop: the two end-of-scan checks
end_checks(f, reg, n_pos) ==
    IF f.pos_count < n_pos
    THEN expected_positional(f, reg, n_pos)
    ELSE RequiredLoop(f, reg.list.start, reg.next)

RECURSIVE ScanLoop(_, _, _, _, _)
\* for (int i = 1; i < argc; ++i) of parse_opts, from index i on
ScanLoop(f, reg, i, argv, n_pos) ==
    IF i >= argc(argv) THEN f
    ELSE LET g == scan_token(f, reg, i, argv, n_pos)
         IN  IF g.aborted \/ g.rc = -1 THEN g
             ELSE ScanLoop(g, reg, i + 1, argv, n_pos)

\* parse_opts(opts, argc, argv, err) as one function of the registry, the
\* destinations and *err it is handed: the frame it leaves, rc its result
parse_opts(list, next, act, dst, e, argv) ==
    LET c == collect_positionals(list, next)
        reg == [list |-> list, next |-> c.next]
        f0 == [activated |-> act, dest |-> dst, err |-> e, omit_idx |-> -1,
               positionals |-> c.pos, pos_count |-> 0, rc |-> 0, aborted |-> FALSE,
               err_writes |-> 0, assigns |-> << >>, visits |-> << >>]
        s == ScanLoop(f0, reg, 1, argv, c.count)
    IN  IF s.aborted \/ s.rc = -1 THEN s ELSE end_checks(s, reg, c.count)

-----------------------------------------------------------------------------
(* Inputs: declared orders and argument vectors *)

RECURSIVE DeclaredOrders(_)
\* every order in which the descriptors of S can be declared
DeclaredOrders(S) ==
    IF S = {} THEN {<< >>}
    ELSE UNION {{<<o>> \o p : p \in DeclaredOrders(S \ {o})} : o \in S}

\* the sets of descriptors a caller declares, each in every order
DescriptorSets ==
    {{"foo_opt", "str_opt", "path_opt"},
     {"str_opt", "num_opt", "path_opt"},
     {"foo_opt", "verbose_opt", "path_opt"},
     {"verbose_opt", "num_opt", "path_opt"},
     {"str_opt", "path_opt", "file_opt"},
     {"foo_opt", "str_opt"},
     {"path_opt", "file_opt"}}

Registries == UNION {DeclaredOrders(S) : S \in DescriptorSets}

prog == <<"p","r","o","g">>

\* the tokens of an argument vector are drawn from one of these sets
Vocabularies ==
    {{<<"-","-","s","t","r">>, <<"-","f">>, <<"a">>, <<"-","-","p","a","t","h">>},
     {<<"-","s","n">>, <<"-","s">>, <<"-","n">>, <<"7">>, <<"a">>},
     {<<"-","f","s">>, <<"-","s","f">>, <<"-","f","v">>, <<"b">>},
     {<<"-","v","f","v">>, <<"-","f","f","s">>, <<"-","v">>, <<"b">>},
     {<<"-","n">>, <<"-","v","v">>, <<"7","x">>, <<"-">>, << >>},
     {<<"-","s","s">>, <<"b">>}}

RECURSIVE SeqsUpTo(_, _)
SeqsUpTo(V, n) ==
    IF n = 0 THEN {<< >>}
    ELSE LET shorter == SeqsUpTo(V, n - 1)
         IN  shorter \cup {Append(q, t) : q \in shorter, t \in V}

\* argv: the program name, then at most MaxArgs tokens of one vocabulary
ArgVectors == {<<prog>> \o q : q \in UNION {SeqsUpTo(V, MaxArgs) : V \in Vocabularies}}

\* the registries and the argument vectors of a caller that calls
\* parse_opts more than once
RepeatRegistries ==
    DeclaredOrders({"str_opt", "num_opt", "path_opt"}) \cup {<<"foo_opt", "str_opt">>}

RepeatVectors ==
    {<<prog>>,
     <<prog, <<"a">>>>,
     <<prog, <<"-","-","s","t","r">>, <<"a">>>>,
     <<prog, <<"-","n">>, <<"7">>>>,
     <<prog, <<"-","-","s","t","r">>, <<"a">>, <<"a">>>>,
     <<prog, <<"-","n">>, <<"7">>, <<"a">>>>}

-----------------------------------------------------------------------------
(* State *)

VARIABLES
    decl,          \* the declared order (the OPTLIST_INIT / OPTLIST_ADD calls made)
    opts,          \* OptionList opts: start, end
    opt_next,      \* Option._next of every descriptor
    activated,     \* Option._activated
    dest,          \* the variable each Option.dest points to
    err,           \* OptParserError err of main
    pc,            \* "main", "scan", "returned", "crashed"
    argv,          \* the argument vector of the call
    i,             \* parse_opts: the loop index
    omit_idx,      \* parse_opts: omit_idx
    n_pos,         \* parse_opts: n_pos
    pos_count,     \* parse_opts: pos_count
    positionals,   \* parse_opts: OptionList positionals
    ret,           \* what parse_opts returned
    fout,          \* the descriptors the last print_usage / print_help printed
    entry,         \* the registry and err as they were when parse_opts was entered
    err_writes,    \* how many times this call stored into *err
    assigns,       \* the destinations this call stored into, in order
    visits,        \* the argv indices the scan loop has been at, in order
    calls          \* how many times parse_opts has been called

vars == <<decl, opts, opt_next, activated, dest, err, pc, argv, i, omit_idx, n_pos,
          pos_count, positionals, ret, fout, entry, err_writes, assigns, visits, calls>>

Registry == [list |-> opts, next |-> opt_next]

Frame == [activated |-> activated, dest |-> dest, err |-> err, omit_idx |-> omit_idx,
          positionals |-> positionals, pos_count |-> pos_count, rc |-> 0,
          aborted |-> FALSE, err_writes |-> err_writes, assigns |-> assigns,
          visits |-> visits]

NoEntry == [next |-> FreshNext, activated |-> [o \in OptIds |-> FALSE],
            dest |-> InitialDest, err |-> NoError]

Init ==
    /\ decl \in Registries
    /\ opts = BuildRegistry(decl).list
    /\ opt_next = BuildRegistry(decl).next
    /\ activated = [o \in OptIds |-> FALSE]
    /\ dest = InitialDest
    /\ err = NoError
    /\ pc = "main"
    /\ argv = <<prog>>
    /\ i = 0
    /\ omit_idx = -1
    /\ n_pos = 0
    /\ pos_count = 0
    /\ positionals = [start |-> NULL, end |-> NULL]
    /\ ret = 0
    /\ fout = [by |-> "none", shown |-> << >>]
    /\ entry = NoEntry
    /\ err_writes = 0
    /\ assigns = << >>
    /\ visits = << >>
    /\ calls = 0

-----------------------------------------------------------------------------
(* Operations *)

RECURSIVE Chain(_, _)
\* the descriptors OPTLIST_FOREACH visits from o on
Chain(o, next) == IF o = NULL THEN << >> ELSE <<o>> \o Chain(next[o], next)

RECURSIVE NonPositionalRun(_, _)
\* the descriptors a FOREACH that breaks at the first positional visits
NonPositionalRun(o, next) ==
    IF o = NULL THEN << >>
    ELSE IF IsPositional(o) THEN << >>
    ELSE <<o>> \o NonPositionalRun(next[o], next)

\* parse_opts, up to its scan loop: collect_positionals and the locals.
\* With no positional declared the last store of collect_positionals goes
\* through a null pointer: the call dies there, or goes on with the store lost.
Enter(a) ==
    /\ LET c == collect_positionals(opts, opt_next)
       IN  /\ argv' = a
           /\ opt_next' = c.next
           /\ entry' = [next |-> opt_next, activated |-> activated,
                        dest |-> dest, err |-> err]
           /\ positionals' = c.pos
           /\ n_pos' = c.count
           /\ pos_count' = 0
           /\ omit_idx' = -1
           /\ i' = 1
           /\ err_writes' = 0
           /\ assigns' = << >>
           /\ visits' = << >>
           /\ calls' = calls + 1
           /\ \/ pc' = "scan"
              \/ c.ub /\ pc' = "crashed"
    /\ UNCHANGED <<decl, opts, activated, dest, err, ret, fout>>

\* main calls parse_opts(&opts, argc, argv, &err)
ParseOptsEnter ==
    /\ pc = "main"
    /\ \E a \in ArgVectors : Enter(a)

\* a caller that parses several vectors calls parse_opts on the registry,
\* the destinations and err as the calls before left them
ParseOptsCall ==
    /\ pc \in {"main", "returned"}
    /\ calls < MaxCalls
    /\ \E a \in RepeatVectors : Enter(a)

\* one iteration of the scan loop of parse_opts
ParseOptsScan ==
    /\ pc = "scan"
    /\ i < argc(argv)
    /\ LET f == scan_token(Frame, Registry, i, argv, n_pos)
       IN  /\ activated' = f.activated
           /\ dest' = f.dest
           /\ err' = f.err
           /\ omit_idx' = f.omit_idx
           /\ positionals' = f.positionals
           /\ pos_count' = f.pos_count
           /\ err_writes' = f.err_writes
           /\ assigns' = f.assigns
           /\ visits' = f.visits
           /\ IF f.aborted THEN pc' = "crashed" /\ UNCHANGED <<i, ret>>
              ELSE IF f.rc = -1 THEN pc' = "returned" /\ ret' = -1 /\ UNCHANGED i
              ELSE pc' = "scan" /\ i' = i + 1 /\ UNCHANGED ret
    /\ UNCHANGED <<decl, opts, opt_next, argv, n_pos, fout, entry, calls>>

\* parse_opts after the loop: the end-of-scan checks and the return
ParseOptsFinish ==
    /\ pc = "scan"
    /\ i >= argc(argv)
    /\ LET f == end_checks(Frame, Registry, n_pos)
       IN  /\ err' = f.err
           /\ err_writes' = f.err_writes
           /\ IF f.aborted THEN pc' = "crashed" /\ UNCHANGED ret
              ELSE pc' = "returned" /\ ret' = f.rc
    /\ UNCHANGED <<decl, opts, opt_next, activated, dest, argv, i, omit_idx, n_pos,
                   pos_count, positionals, fout, entry, assigns, visits, calls>>

\* print_usage(opts, fout, progname): the non-positional run, then the view
PrintUsage ==
    /\ pc \in {"main", "returned"}
    /\ LET c == collect_positionals(opts, opt_next)
       IN  /\ opt_next' = c.next
           /\ \/ /\ pc' = pc
                 /\ fout' = [by |-> "print_usage",
                             shown |-> NonPositionalRun(opts.start, c.next)
                                         \o Chain(c.pos.start, c.next)]
              \/ c.ub /\ pc' = "crashed" /\ UNCHANGED fout
    /\ UNCHANGED <<decl, opts, activated, dest, err, argv, i, omit_idx, n_pos,
                   pos_count, positionals, ret, entry, err_writes, assigns, visits,
                   calls>>

\* print_help(opts, fout): every descriptor of the chain
PrintHelp ==
    /\ pc \in {"main", "returned"}
    /\ LET c == collect_positionals(opts, opt_next)
       IN  /\ opt_next' = c.next
           /\ \/ /\ pc' = pc
                 /\ fout' = [by |-> "print_help", shown |-> Chain(opts.start, c.next)]
              \/ c.ub /\ pc' = "crashed" /\ UNCHANGED fout
    /\ UNCHANGED <<decl, opts, activated, dest, err, argv, i, omit_idx, n_pos,
                   pos_count, positionals, ret, entry, err_writes, assigns, visits,
                   calls>>

Next ==
    \/ ParseOptsEnter
    \/ ParseOptsScan
    \/ ParseOptsFinish
    \/ PrintUsage
    \/ PrintHelp

Spec == Init /\ [][Next]_vars

\* the caller that parses up to MaxCalls vectors with one registry
InitRepeat == Init /\ decl \in RepeatRegistries

NextRepeat ==
    \/ ParseOptsCall
    \/ ParseOptsScan
    \/ ParseOptsFinish
    \/ PrintUsage
    \/ PrintHelp

SpecRepeat == InitRepeat /\ [][NextRepeat]_vars

-----------------------------------------------------------------------------
(* What an argument vector says, read from the declaration alone.          *)
(* Reading(D, a) goes through a left to right the way the interface is     *)
(* documented: --name is the option of D with that long name, every        *)
(* character of -xyz is the option with that short name, a value-taking    *)
(* option owns the element after its token, anything else is a plain       *)
(* token.  It uses no link and no state of the parser.                     *)

Declared == {decl[k] : k \in 1..Len(decl)}
NonPositionals == {o \in Declared : ~IsPositional(o)}
IsPos(o) == IsPositional(o)
PositionalsInOrder == SelectSeq(decl, IsPos)

ByLname(name) == {o \in NonPositionals : Option[o].lname = Ptr(name)}
BySname(ch) == {o \in NonPositionals : Option[o].sname = ch}

IsLongToken(t) == CharAt(t, 0) = "-" /\ CharAt(t, 1) = "-"
IsGroupToken(t) == CharAt(t, 0) = "-" /\ CharAt(t, 1) # "-"
IsPlainToken(t) == CharAt(t, 0) # "-"

\* the options a token names, in order (<<NULL>> for a name not declared)
OptionsOf(t) ==
    IF IsLongToken(t)
    THEN IF ByLname(Suffix(t, 2)) = {} THEN <<NULL>>
         ELSE <<CHOOSE o \in ByLname(Suffix(t, 2)) : TRUE>>
    ELSE [k \in 1..(Len(t) - 1) |->
            IF BySname(t[k + 1]) = {} THEN NULL
            ELSE CHOOSE o \in BySname(t[k + 1]) : TRUE]

Range(q) == {q[k] : k \in 1..Len(q)}

TakesValue(t) ==
    \E o \in Range(OptionsOf(t)) \ {NULL} : opt_has_argument(o)

IsInteger(t) == Len(t) > 0 /\ \A k \in 1..Len(t) : t[k] \in Digits

\* what one option of a token at index k asks of its destination
Wanted(o, a, k, old) ==
    CASE Option[o].type = "OPTION_FLAG" -> TRUE
      [] Option[o].type = "OPTION_INCREMENT" -> old + 1
      [] Option[o].type = "OPTION_STORE_STR" -> Ptr(Arg(a, k + 1))
      [] Option[o].type = "OPTION_STORE_INT" -> strtol(Arg(a, k + 1)).result

RECURSIVE ApplyOptions(_, _, _, _, _)
ApplyOptions(d, os, n, a, k) ==
    IF n > Len(os) THEN d
    ELSE ApplyOptions([d EXCEPT ![os[n]] = Wanted(os[n], a, k, d[os[n]])],
                      os, n + 1, a, k)

RECURSIVE ReadFrom(_, _, _)
\* r: ok (well formed so far), dest (the values asked for), plains (the
\* indices of the plain tokens), given (the options named), values (the
\* indices owned by a value-taking option)
ReadFrom(a, k, r) ==
    IF k >= argc(a) THEN r
    ELSE LET t == Arg(a, k)
         IN  IF IsPlainToken(t)
             THEN ReadFrom(a, k + 1, [r EXCEPT !.plains = Append(@, k)])
             ELSE LET os == OptionsOf(t)
                  IN  IF NULL \in Range(os)
                      THEN [r EXCEPT !.ok = FALSE]
                      ELSE IF TakesValue(t) /\ k + 1 = argc(a)
                      THEN [r EXCEPT !.ok = FALSE]
                      ELSE IF /\ TakesValue(t)
                              /\ \E o \in Range(os) : Option[o].type = "OPTION_STORE_INT"
                              /\ ~IsInteger(Arg(a, k + 1))
                      THEN [r EXCEPT !.ok = FALSE]
                      ELSE ReadFrom(a, IF TakesValue(t) THEN k + 2 ELSE k + 1,
                                    [r EXCEPT !.dest = ApplyOptions(@, os, 1, a, k),
                                              !.given = @ \cup Range(os),
                                              !.values = IF TakesValue(t)
                                                         THEN @ \cup {k + 1} ELSE @])

Reading(a, d0) ==
    ReadFrom(a, 1, [ok |-> TRUE, dest |-> d0, plains |-> << >>, given |-> {},
                    values |-> {}])

\* the reading with the k-th plain token given to the k-th declared positional
RECURSIVE GivePlains(_, _, _, _)
GivePlains(d, a, plains, k) ==
    IF k > Len(plains) \/ k > Len(PositionalsInOrder) THEN d
    ELSE GivePlains([d EXCEPT ![PositionalsInOrder[k]] = Ptr(Arg(a, plains[k]))],
                    a, plains, k + 1)

\* every required option is named, every positional gets exactly one token
Complete(a) ==
    LET r == Reading(a, entry.dest)
    IN  /\ r.ok
        /\ \A o \in NonPositionals : Option[o].required => o \in r.given
        /\ Len(r.plains) = Len(PositionalsInOrder)

ExpectedDest(a) ==
    LET r == Reading(a, entry.dest)
    IN  GivePlains(r.dest, a, r.plains, 1)

HasBothKinds == PositionalsInOrder # << >> /\ NonPositionals # {}

-----------------------------------------------------------------------------
(* Claims *)

\* C1 (as claimed): whatever the declared order, a registry with both kinds
\* of descriptor and an argument vector that supplies every required option
\* (with its value), names only declared options and holds exactly one plain
\* token per positional makes parse_opts return 0 with every destination
\* equal to the supplied input.
C1_CompleteVectorSucceeds ==
    (pc = "returned" /\ HasBothKinds /\ Complete(argv))
        => /\ ret = 0
           /\ \A o \in Declared : dest[o] = ExpectedDest(argv)[o]

\* C1 holds of the registries whose first declared descriptor is an option
C1_HeadIsOption ==
    (pc = "returned" /\ HasBothKinds /\ Complete(argv) /\ ~IsPositional(decl[1]))
        => /\ ret = 0
           /\ \A o \in Declared : dest[o] = ExpectedDest(argv)[o]

C1_Witness ==
    /\ pc = "returned" /\ HasBothKinds /\ Complete(argv) /\ ~IsPositional(decl[1])
    /\ Len(argv) = 4

\* C2 (as claimed): parse_opts returns -1 if and only if it stored an error
\* into *err; the scan never goes on after an error was stored; a call that
\* returns 0 leaves *err as the caller passed it.
C2_ErrorIffFailure ==
    /\ pc = "scan" => err_writes = 0
    /\ pc = "returned" =>
         /\ (ret = -1) <=> (err_writes > 0)
         /\ err_writes <= 1
         /\ ret = 0 => err = entry.err

\* the positions in token t of its value-taking options
ValuePositions(t) ==
    {k \in 1..(Len(t) - 1) : OptionsOf(t)[k] # NULL /\ opt_has_argument(OptionsOf(t)[k])}

Min(S) == CHOOSE x \in S : \A y \in S : x <= y

\* the position of the second value-taking option of t
SecondValuePosition(t) == Min(ValuePositions(t) \ {Min(ValuePositions(t))})

\* token k is a group of declared short options, two of them value-taking,
\* followed by an element that every one of them accepts as its value
TwoValueGroup(a, k) ==
    LET t == Arg(a, k)
    IN  /\ IsGroupToken(t)
        /\ NULL \notin Range(OptionsOf(t))
        /\ Cardinality(ValuePositions(t)) >= 2
        /\ k + 1 < argc(a)
        /\ IsInteger(Arg(a, k + 1))

\* C3 (as claimed): once the scanner has been through a group token with two
\* value-taking options, parse_opts has failed with "one value-taking option
\* per group" carrying the group token and the second option's character,
\* and that option's destination was not assigned from the element after
\* the group.
C3_TwoValueGroupFails ==
    \A n \in 1..Len(visits) :
        (visits[n].how = "short" /\ TwoValueGroup(argv, visits[n].idx) /\ pc # "crashed")
            => LET t == Arg(argv, visits[n].idx)
                   j == SecondValuePosition(t)
               IN  /\ pc = "returned" /\ ret = -1
                   /\ n = Len(visits)
                   /\ err = [type |-> "OPTERROR_ONE_ARG_OPT_PER_GROUP", lname |-> NullStr,
                             sname |-> t[j + 1], opt |-> Ptr(t)]
                   /\ \A m \in 1..Len(assigns) :
                        ~(/\ assigns[m].opt = OptionsOf(t)[j]
                          /\ assigns[m].idx = visits[n].idx
                          /\ assigns[m].src = visits[n].idx + 1)

\* parse_opts has returned from its end-of-scan checks (the scan loop ran out)
ScanCompleted == pc = "returned" /\ i >= argc(argv)

\* parse_opts has returned -1 from inside the scan loop
ScanFailed == pc = "returned" /\ i < argc(argv)

NPos == Len(PositionalsInOrder)

\* C4 (as claimed): a scan that ends with fewer plain tokens than declared
\* positionals fails with "expected positional argument" carrying the long
\* name of the first positional, in declared order, that received no value.
C4_NamesFirstUnfilled ==
    (ScanCompleted /\ pos_count < NPos)
        => /\ ret = -1
           /\ err.type = "OPTERROR_EXPECTED_POSITIONAL"
           /\ err.opt = Option[PositionalsInOrder[pos_count + 1]].lname

\* the options this call has matched with a token
Matched == {assigns[m].opt : m \in 1..Len(assigns)} \ Range(PositionalsInOrder)

\* the required options this call has not matched, in declared order
IsUnmatchedRequired(o) == ~IsPositional(o) /\ Option[o].required /\ o \notin Matched
UnmatchedRequired == SelectSeq(decl, IsUnmatchedRequired)

\* C5 (as claimed): parse_opts returns 0 only if every required option was
\* matched by a token of this vector; when the scan raised no error and every
\* positional was supplied, an unmatched required option makes it fail with
\* "required option" naming the first such descriptor in declared order.
C5_RequiredEnforced ==
    /\ (pc = "returned" /\ ret = 0) => UnmatchedRequired = << >>
    /\ (ScanCompleted /\ pos_count = NPos /\ UnmatchedRequired # << >>)
         => /\ ret = -1
            /\ err.type = "OPTERROR_REQUIRED_OPTION"
            /\ Option[UnmatchedRequired[1]].lname # NullStr
                 => err.lname = Option[UnmatchedRequired[1]].lname
            /\ Option[UnmatchedRequired[1]].sname # NUL
                 => err.sname = Option[UnmatchedRequired[1]].sname

\* the descriptors the resolver finds for the characters of token t (for
\* its name, when t is a long option), on the chain as it is now
Resolved(t) ==
    IF IsLongToken(t)
    THEN <<find_option_lname(opts, opt_next, Suffix(t, 2))>>
    ELSE [k \in 1..(Len(t) - 1) |-> find_option_sname(opts, opt_next, Suffix(t, k))]

\* the positions of Resolved(t) at which the scan of t can end: a character
\* that resolves to nothing, or a value-taking option
Stops(t) ==
    {k \in 1..Len(Resolved(t)) :
        Resolved(t)[k] = NULL \/ opt_has_argument(Resolved(t)[k])}

\* scanning t gets to a value-taking option: every character before it
\* resolves to a flag or an increment
ReachesValueOption(t) ==
    /\ ~IsPlainToken(t)
    /\ Stops(t) # {}
    /\ Resolved(t)[Min(Stops(t))] # NULL

FirstValueOption(t) == Resolved(t)[Min(Stops(t))]

LastVisit == visits[Len(visits)]

\* the last step was an iteration of the scan loop
JustScanned == Len(visits) > 0 /\ (pc = "scan" \/ ScanFailed)

\* the characters of group t before its first undeclared one are flags or
\* increments
UndeclaredComesFirst(t) ==
    LET bad == {k \in 1..(Len(t) - 1) : OptionsOf(t)[k] = NULL}
    IN  /\ bad # {}
        /\ \A k \in 1..(Min(bad) - 1) : ~opt_has_argument(OptionsOf(t)[k])

\* C7 (as claimed): whatever the declared order, --name fails with "unknown
\* option" carrying the token if and only if no non-positional descriptor is
\* declared with that long name; a group fails with it only if one of its
\* characters is no declared short name, and does fail when such a character
\* comes before any value-taking one; a name that is declared resolves to a
\* non-positional descriptor with that name.
C7_UnknownIffUndeclared ==
    JustScanned =>
        LET t == Arg(argv, LastVisit.idx)
            unknown == ScanFailed /\ err = ErrorOpt("OPTERROR_UNKNOWN", t)
        IN  /\ LastVisit.how = "long" =>
                 /\ unknown <=> ByLname(Suffix(t, 2)) = {}
                 /\ ~unknown => Resolved(t)[1] \in ByLname(Suffix(t, 2))
            /\ LastVisit.how = "short" =>
                 /\ unknown => NULL \in Range(OptionsOf(t))
                 /\ UndeclaredComesFirst(t) => unknown
                 /\ \A k \in 1..(Len(t) - 1) :
                      Resolved(t)[k] # NULL => Resolved(t)[k] \in BySname(t[k + 1])

\* the argv indices a value-taking option has taken its value from
ClaimedIndices ==
    {assigns[m].src : m \in {n \in 1..Len(assigns) : opt_has_argument(assigns[n].opt)}}

\* the plain tokens the scan has come to: not starting with '-' and not
\* claimed as a value, by index, in order
IsPlainIndex(n) == IsPlainToken(Arg(argv, n)) /\ n \notin ClaimedIndices
PlainSeen == SelectSeq([n \in 1..Len(visits) |-> n], IsPlainIndex)

\* C8: the k-th plain token is in the destination of the k-th positional in
\* declared order, in every state from its scan on; a plain token beyond the
\* declared positionals makes parse_opts return -1 with "unexpected
\* positional argument" carrying that token, the destinations filled before
\* keeping their tokens.
C8_PositionalsInDeclaredOrder ==
    pc \in {"scan", "returned"} =>
        /\ \A k \in 1..Len(PlainSeen) :
             k <= NPos => dest[PositionalsInOrder[k]] = Ptr(Arg(argv, PlainSeen[k]))
        /\ Len(PlainSeen) > NPos =>
             /\ Len(PlainSeen) = NPos + 1
             /\ PlainSeen[NPos + 1] = Len(visits)
             /\ ScanFailed /\ ret = -1
             /\ err = ErrorOpt("OPTERROR_UNEXPECTED_POSITIONAL",
                               Arg(argv, PlainSeen[NPos + 1]))

\* C8 witness: two positionals filled by the first two plain tokens, the
\* third refused
C8_Witness ==
    /\ ScanFailed
    /\ NPos = 2
    /\ Len(PlainSeen) = 3
    /\ err.type = "OPTERROR_UNEXPECTED_POSITIONAL"
    /\ dest[PositionalsInOrder[1]] = Ptr(Arg(argv, PlainSeen[1]))
    /\ dest[PositionalsInOrder[2]] = Ptr(Arg(argv, PlainSeen[2]))

\* how the scan loop reads a token it does not skip
ShapeOf(t) ==
    IF IsLongToken(t) THEN "long" ELSE IF IsGroupToken(t) THEN "short" ELSE "positional"

\* C9: the scan loop comes to the indices 1, 2, ... once each, up to where
\* parsing stops; it skips an index exactly when a value-taking option has
\* taken that element as its value (whatever the element starts with), and
\* reads every other element once, by its shape.
C9_ClaimedValueSkipped ==
    pc \in {"scan", "returned"} =>
        /\ Len(visits) = IF pc = "scan" THEN i - 1
                         ELSE IF ScanFailed THEN i ELSE argc(argv) - 1
        /\ \A n \in 1..Len(visits) :
             /\ visits[n].idx = n
             /\ visits[n].how = "omitted" <=> n \in ClaimedIndices
             /\ visits[n].how # "omitted" => visits[n].how = ShapeOf(Arg(argv, n))

\* C9 witness: -f, taken by --str as its value, was skipped and foo not set
C9_Witness ==
    /\ pc = "returned"
    /\ Len(visits) >= 2
    /\ Arg(argv, 1) = <<"-", "-", "s", "t", "r">>
    /\ Arg(argv, 2) = <<"-", "f">>
    /\ visits[2].how = "omitted"
    /\ dest["str_opt"] = Ptr(<<"-", "f">>)
    /\ "foo_opt" \in Declared /\ dest["foo_opt"] = FALSE

\* a with the group at index k replaced by one token per character:
\* -abc becomes -a -b -c
Ungroup(a, k) ==
    SubSeq(a, 1, k)
      \o [j \in 1..(Len(Arg(a, k)) - 1) |-> <<"-", Arg(a, k)[j + 1]>>]
      \o SubSeq(a, k + 2, Len(a))

\* token k is a group of two or more declared short options, at most one
\* of them value-taking
IsOptionGroup(a, k) ==
    /\ IsGroupToken(Arg(a, k))
    /\ Len(Arg(a, k)) >= 3
    /\ NULL \notin Range(OptionsOf(Arg(a, k)))
    /\ Cardinality(ValuePositions(Arg(a, k))) <= 1

\* parse_opts on the same registry, destinations and *err as the call made,
\* with the group at index k written as separate options
Separately(k) ==
    parse_opts(opts, entry.next, entry.activated, entry.dest, entry.err,
               Ungroup(argv, k))

\* C10 (as claimed): a vector with the group -abc (at most one value-taking
\* option in it) gives the same return value, destinations and activation
\* flags as the vector with -a -b -c in its place.  Stated for registries
\* with both kinds of descriptor, where every step of the code is defined.
C10_GroupEqualsSeparate ==
    (pc = "returned" /\ HasBothKinds) =>
        \A k \in 1..(argc(argv) - 1) :
            IsOptionGroup(argv, k) =>
                /\ Separately(k).rc = ret
                /\ Separately(k).dest = dest
                /\ Separately(k).activated = activated

\* the scan did not skip token k as the value of the option before it
NotTakenAsValue(k) == ~(k <= Len(visits) /\ visits[k].how = "omitted")

\* the value-taking option of the group, if any, is its last character
ValueOptionLast(t) == ValuePositions(t) \subseteq {Len(t) - 1}

\* C10 (amended): the same, for a group that is not itself taken as the
\* value of the option before it and whose value-taking option, if it has
\* one, is its last character.
C10_GroupEqualsSeparate_ValueLast ==
    pc = "returned" =>
        \A k \in 1..(argc(argv) - 1) :
            (/\ IsOptionGroup(argv, k)
             /\ ValueOptionLast(Arg(argv, k))
             /\ NotTakenAsValue(k))
                => /\ Separately(k).rc = ret
                   /\ Separately(k).dest = dest
                   /\ Separately(k).activated = activated

\* C10 witness: -fs b parsed to the end: foo set, str = "b", as for -f -s b
C10_Witness ==
    /\ ScanCompleted
    /\ argc(argv) >= 3
    /\ Arg(argv, 1) = <<"-", "f", "s">>
    /\ IsOptionGroup(argv, 1)
    /\ visits[1].how = "short"
    /\ dest["foo_opt"] = TRUE /\ dest["str_opt"] = Ptr(Arg(argv, 2))
    /\ Separately(1).dest = dest

-----------------------------------------------------------------------------
(* Claims about the repartition of the chain *)

IsOpt(o) == ~IsPositional(o)
OptionsInOrder == SelectSeq(decl, IsOpt)

\* the traversal a repartition is to leave: the options in declared order,
\* then the positionals in declared order
Partitioned == OptionsInOrder \o PositionalsInOrder

\* collect_positionals has run at least once
Repartitioned == pc \in {"scan", "returned"} \/ fout.by # "none"

\* C11 (as claimed): whatever the declared order, once a repartition has run
\* the traversal from the registry's head is every option in declared order
\* followed by every positional in declared order, the count parse_opts got
\* is the number of positionals and its view starts at the first positional;
\* print_usage and print_help show every descriptor in that order.
C11_RepartitionOrder ==
    (HasBothKinds /\ Repartitioned) =>
        /\ Chain(opts.start, opt_next) = Partitioned
        /\ pc \in {"scan", "returned"} => n_pos = NPos
        /\ (pc = "scan" /\ visits = << >>) => positionals.start = PositionalsInOrder[1]
        /\ fout.by # "none" => fout.shown = Partitioned

\* what the first repartition of the registry as declared returns and leaves
FirstRepartition ==
    collect_positionals(BuildRegistry(decl).list, BuildRegistry(decl).next)

\* C12: with both kinds of descriptor declared, after any number of
\* repartitions (by parse_opts, print_usage, print_help in any order) the
\* chain is the one the first repartition left, and one more repartition
\* leaves the same chain and returns the same count and the same positional
\* view, member by member.
C12_RepartitionIdempotent ==
    (HasBothKinds /\ Repartitioned) =>
        LET first == FirstRepartition
            again == collect_positionals(opts, opt_next)
        IN  /\ Chain(opts.start, opt_next) = Chain(opts.start, first.next)
            /\ Chain(opts.start, again.next) = Chain(opts.start, first.next)
            /\ again.count = first.count
            /\ Chain(again.pos.start, again.next) = Chain(first.pos.start, first.next)
            /\ pc \in {"scan", "returned"} => n_pos = first.count

\* C12 witness: parse_opts and print_help have both repartitioned a chain of
\* two options and a positional
C12_Witness ==
    /\ HasBothKinds
    /\ pc = "returned" /\ fout.by = "print_help"
    /\ Len(OptionsInOrder) = 2
    /\ Chain(opts.start, opt_next) = Partitioned
    /\ n_pos = 1

\* C13 (as claimed): on a registry without positionals, and on one without
\* options, no operation goes through a null link: every call completes,
\* parse_opts with the count of the declared positionals.
C13_DefinedOnEmptyRun ==
    ~HasBothKinds =>
        /\ pc # "crashed"
        /\ pc \in {"scan", "returned"} => n_pos = NPos

RECURSIVE EndsInNull(_, _, _)
\* following the links from o comes to a null successor within n steps
EndsInNull(o, next, n) ==
    IF o = NULL THEN TRUE
    ELSE IF n = 0 THEN FALSE
    ELSE EndsInNull(next[o], next, n - 1)

\* C14 (as claimed): in every state the chain from the head is not circular
\* and ends in a null successor, the registry's tail is the last descriptor
\* of that chain, and OPTLIST_ADD of one more descriptor gives the chain as
\* it was followed by that descriptor.
C14_RegistryInvariant ==
    (HasBothKinds /\ pc # "crashed") =>
        /\ EndsInNull(opts.start, opt_next, Cardinality(OptIds))
        /\ opts.end = Chain(opts.start, opt_next)[Len(Chain(opts.start, opt_next))]
        /\ opt_next[opts.end] = NULL
        /\ \A o \in OptIds \ Declared :
             Chain(opts.start, OPTLIST_ADD(Registry, o).next)
               = Append(Chain(opts.start, opt_next), o)

-----------------------------------------------------------------------------
(* Claims about the assignments *)

\* what a value-taking option stores for the element t
ValueOf(o, t) ==
    IF Option[o].type = "OPTION_STORE_STR" THEN Ptr(t) ELSE strtol(t).result

\* C15: every store a scan step makes into the destination of a
\* value-taking option is made for the option token the step is at, index i,
\* and from the element at i + 1: the destination then holds that element (a
\* string option the element itself, an integer option its value) and
\* omit_idx is i + 1, at whatever position of a group the option stands.
C15_ValueIsNextElement ==
    [][pc = "scan" =>
         \A m \in (Len(assigns) + 1)..Len(assigns') :
             opt_has_argument(assigns'[m].opt) =>
                 /\ ~IsPlainToken(Arg(argv, i))
                 /\ assigns'[m].opt \in Range(Resolved(Arg(argv, i)))
                 /\ assigns'[m].idx = i
                 /\ i + 1 < argc(argv)
                 /\ assigns'[m].src = i + 1
                 /\ dest'[assigns'[m].opt] = ValueOf(assigns'[m].opt, Arg(argv, i + 1))
                 /\ omit_idx' = i + 1]_vars

\* C15 witness: -sf b, the value-taking option first in its group: str is
\* the element after the group, which the scan then skips
C15_Witness ==
    /\ pc \in {"scan", "returned"}
    /\ Len(visits) >= 2
    /\ Arg(argv, 1) = <<"-", "s", "f">>
    /\ visits[1].how = "short" /\ visits[2].how = "omitted"
    /\ dest["str_opt"] = Ptr(Arg(argv, 2))
    /\ dest["foo_opt"] = TRUE

\* how many times token t names option o
Occurrences(o, t) == Cardinality({k \in 1..Len(OptionsOf(t)) : OptionsOf(t)[k] = o})

ScanErrors ==
    {"OPTERROR_UNKNOWN", "OPTERROR_ARGUMENT_REQUIRED", "OPTERROR_INT_TYPE_ERROR",
     "OPTERROR_UNEXPECTED_POSITIONAL"}

\* C17: while the scan goes on none of the four scan errors has been raised;
\* a call that returns from inside the scan reports one of them, carrying
\* the token the scan stopped at; a scan that ends with a positional missing
\* fails with "expected positional argument" whether or not a required
\* option is missing too; "required option" is reported only by a scan that
\* ended with every positional supplied.
C17_ErrorOrder ==
    /\ pc = "scan" => err.type \notin ScanErrors
    /\ ScanFailed =>
         /\ ret = -1
         /\ err.type \in ScanErrors
         /\ err.opt = Ptr(Arg(argv, i))
    /\ (ScanCompleted /\ pos_count < NPos) =>
         /\ ret = -1
         /\ err.type = "OPTERROR_EXPECTED_POSITIONAL"
    /\ (pc = "returned" /\ err.type = "OPTERROR_REQUIRED_OPTION") =>
         /\ ScanCompleted
         /\ pos_count = NPos

\* C17 witness: a vector without the positional and without the required
\* option str, on a registry whose required check would find str missing
C17_Witness ==
    /\ ScanCompleted
    /\ pos_count < NPos
    /\ decl[1] = "str_opt"
    /\ UnmatchedRequired # << >>
    /\ err.type = "OPTERROR_EXPECTED_POSITIONAL"

\* t is a base-10 integer literal: an optional sign, then one digit or more
IsIntegerLiteral(t) ==
    LET k == IF CharAt(t, 0) \in {"+", "-"} THEN 1 ELSE 0
    IN  /\ Len(t) > k
        /\ \A j \in (k + 1)..Len(t) : t[j] \in Digits

RECURSIVE Decimal(_, _)
\* the number the first n characters of the digit string t write
Decimal(t, n) == IF n = 0 THEN 0 ELSE Decimal(t, n - 1) * 10 + DigitVal(t[n])

LiteralValue(t) ==
    IF CharAt(t, 0) = "-" THEN 0 - Decimal(Suffix(t, 1), Len(t) - 1)
    ELSE IF CharAt(t, 0) = "+" THEN Decimal(Suffix(t, 1), Len(t) - 1)
    ELSE Decimal(t, Len(t))

\* C18 (as claimed): when the scanner gets to an integer-valued option whose
\* token is followed by an element, the option is assigned exactly when the
\* whole element is a base-10 integer literal, and then holds its value; for
\* any other element, the empty string included, parse_opts returns -1 with
\* "integer type error" carrying the option's token, the destination and the
\* activation flag as they were.
C18_IntegerWholeElement ==
    [][(/\ pc = "scan"
        /\ i < argc(argv) - 1
        /\ i # omit_idx
        /\ ReachesValueOption(Arg(argv, i))
        /\ Option[FirstValueOption(Arg(argv, i))].type = "OPTION_STORE_INT")
         => IF IsIntegerLiteral(Arg(argv, i + 1))
            THEN /\ dest'[FirstValueOption(Arg(argv, i))] = LiteralValue(Arg(argv, i + 1))
                 /\ activated'[FirstValueOption(Arg(argv, i))]
            ELSE /\ pc' = "returned"
                 /\ ret' = -1
                 /\ err' = ErrorOpt("OPTERROR_INT_TYPE_ERROR", Arg(argv, i))
                 /\ dest'[FirstValueOption(Arg(argv, i))]
                      = dest[FirstValueOption(Arg(argv, i))]
                 /\ activated'[FirstValueOption(Arg(argv, i))]
                      = activated[FirstValueOption(Arg(argv, i))]]_vars

\* the descriptor the closing loop of parse_opts stops at: the first
\* required option of the chain that is not activated
RECURSIVE FirstInactiveRequired(_)
FirstInactiveRequired(o) ==
    IF o = NULL THEN NULL
    ELSE IF IsPositional(o) THEN NULL
    ELSE IF Option[o].required /\ ~activated[o] THEN o
    ELSE FirstInactiveRequired(opt_next[o])

\* C19 (as claimed): a call that was handed a zeroed err and fails with
\* "required option" leaves in err the long name and the short name of the
\* unmatched descriptor, a name it does not have empty, and an empty
\* raw-token field.
C19_RequiredErrorFields ==
    (/\ pc = "returned" /\ ret = -1
     /\ err.type = "OPTERROR_REQUIRED_OPTION"
     /\ entry.err = NoError)
        => /\ FirstInactiveRequired(opts.start) # NULL
           /\ err.lname = Option[FirstInactiveRequired(opts.start)].lname
           /\ err.sname = Option[FirstInactiveRequired(opts.start)].sname
           /\ err.opt = NullStr

-----------------------------------------------------------------------------
(* Claims about repeated calls *)

\* err names the descriptor o
Names(e, o) == e.lname = Option[o].lname /\ e.sname = Option[o].sname

\* C20: no step of parse_opts, print_usage or print_help clears an
\* activation flag, whatever the number of calls; and a call that ends with
\* "required option" does not name a required option that had been matched
\* when the call was entered.
C20_ActivationMonotone ==
    [][/\ \A o \in OptIds : activated[o] => activated'[o]
       /\ (/\ pc' = "returned" /\ ret' = -1
           /\ err_writes' > 0
           /\ err'.type = "OPTERROR_REQUIRED_OPTION")
            => \A o \in NonPositionals :
                 (Option[o].required /\ entry'.activated[o]) => ~Names(err', o)]_vars

\* C20 witness: the second call, -n 7 a, returns 0 although its vector has
\* no --str: the required str was matched by the call before
C20_Witness ==
    /\ calls = 2
    /\ ScanCompleted /\ ret = 0
    /\ argv = <<prog, <<"-", "n">>, <<"7">>, <<"a">>>>
    /\ decl[1] = "str_opt"
    /\ entry.activated["str_opt"]
    /\ Matched = {"num_opt"}
    /\ UnmatchedRequired = <<"str_opt">>

-----------------------------------------------------------------------------
(* Claims about failures and about the positional cursor *)

\* argv with the group at index k cut to its first j - 1 option characters
CutGroup(a, k, j) == [a EXCEPT ![k + 1] = SubSeq(Arg(a, k), 1, j)]

\* the scan of the token at i with its group cut to j - 1 characters
ScanCut(j) == scan_token(Frame, Registry, i, CutGroup(argv, i, j), n_pos)

\* C21: a step on which parse_opts returns -1 undoes nothing and writes
\* nothing further.  A failing long option, plain token or end-of-scan check
\* leaves every destination and activation flag as the tokens before left
\* them; a group that fails at a character leaves them as the characters
\* before it wrote them (what scanning the group cut before that character
\* gives); and the scan has been at no index after the failing one.
C21_NoRollback ==
    [][(pc = "scan" /\ pc' = "returned" /\ ret' = -1) =>
         IF i < argc(argv)
         THEN /\ Len(visits') = i /\ i' = i
              /\ IF IsGroupToken(Arg(argv, i)) /\ i # omit_idx
                 THEN \E j \in 1..(Len(Arg(argv, i)) - 1) :
                        /\ ScanCut(j).rc = 0
                        /\ ScanCut(j + 1).rc = -1
                        /\ dest' = ScanCut(j).dest
                        /\ activated' = ScanCut(j).activated
                 ELSE dest' = dest /\ activated' = activated
         ELSE dest' = dest /\ activated' = activated]_vars

\* C21 witness: -fv where v is not declared: "unknown option", and foo,
\* false before the call, is true and activated
C21_Witness ==
    /\ ScanFailed /\ ret = -1
    /\ Arg(argv, i) = <<"-", "f", "v">>
    /\ "verbose_opt" \notin Declared
    /\ err = ErrorOpt("OPTERROR_UNKNOWN", <<"-", "f", "v">>)
    /\ ~entry.activated["foo_opt"] /\ entry.dest["foo_opt"] = FALSE
    /\ dest["foo_opt"] = TRUE /\ activated["foo_opt"]

\* a without its element at index k
Without(a, k) == SubSeq(a, 1, k) \o SubSeq(a, k + 2, Len(a))

\* parse_opts on the registry, destinations and *err of the call made, with
\* the element at index k left out
ParsedWithout(k) ==
    parse_opts(opts, entry.next, entry.activated, entry.dest, entry.err,
               Without(argv, k))

SameResult(k) ==
    /\ ParsedWithout(k).rc = ret
    /\ ParsedWithout(k).dest = dest
    /\ ParsedWithout(k).activated = activated
    /\ ParsedWithout(k).err = err

\* C22 (as claimed): a vector with a token that is exactly "-" gives the
\* same return value, destinations, activation flags and error as the vector
\* without that token.
C22_LoneDashIgnored ==
    (pc = "returned" /\ HasBothKinds) =>
        \A k \in 1..(argc(argv) - 1) :
            Arg(argv, k) = <<"-">> => SameResult(k)

\* C22 (amended): the same, for a "-" the scan loop comes to as a token of
\* its own: one that is not taken as the value of the option before it and
\* is not behind the token parsing stopped at.  Such a token goes to the
\* group scanner and stores nothing.
C22_LoneDashIgnored_WhenScanned ==
    pc = "returned" =>
        \A k \in 1..(argc(argv) - 1) :
            (Arg(argv, k) = <<"-">> /\ k <= Len(visits) /\ visits[k].how # "omitted")
                => /\ visits[k].how = "short"
                   /\ \A m \in 1..Len(assigns) : assigns[m].idx # k
                   /\ SameResult(k)

\* C22 witness: -vv - -vv parsed like -vv -vv: verbose is 4
C22_Witness ==
    /\ pc = "returned"
    /\ argv = <<prog, <<"-", "v", "v">>, <<"-">>, <<"-", "v", "v">>>>
    /\ Len(visits) = 3 /\ visits[2].how = "short"
    /\ dest["verbose_opt"] = 4
    /\ SameResult(2)

\* C23: on a registry with a positional, whenever the scan loop is running
\* or has returned -1, 0 <= pos_count <= n_pos, n_pos is the number of
\* positionals, and positionals.start is the (pos_count + 1)-th positional
\* in declared order, null exactly when pos_count = n_pos; no call dies on
\* the assertion or on a null cursor.
C23_PositionalCursor ==
    NPos >= 1 =>
        /\ pc # "crashed"
        /\ (pc = "scan" \/ ScanFailed) =>
             /\ 0 <= pos_count /\ pos_count <= n_pos
             /\ n_pos = NPos
             /\ positionals.start = IF pos_count < NPos
                                    THEN PositionalsInOrder[pos_count + 1]
                                    ELSE NULL
             /\ (positionals.start = NULL) <=> (pos_count = n_pos)
        /\ (ScanCompleted /\ pos_count < n_pos) => positionals.start # NULL

\* C23 witness: with a positional declared first, the cursor is on the
\* second positional after one plain token
C23_Witness ==
    /\ pc = "scan"
    /\ NPos = 2 /\ IsPositional(decl[1])
    /\ pos_count = 1
    /\ positionals.start = PositionalsInOrder[2]

====
